---- MODULE Spec2Model ----
(***************************************************************************)
(* A model of qtrc-extract: the name hash, the name scanner, the tree      *)
(* validator, the blob locators, the tree extractor, the executable        *)
(* mapping and main.  The program is single-threaded and works on one      *)
(* immutable byte buffer; every action below is one function call or one   *)
(* loop iteration of the source.                                           *)
(*                                                                         *)
(* Conventions.  A byte slice is a sequence of numbers 0..255 and Rust's   *)
(* 0-based index i is TLA+ index i+1.  A String is the sequence of its     *)
(* Unicode scalar values.  TLC's integers are 32-bit signed, so a u32 that *)
(* can exceed 2^31 is kept in split form where the code computes with it   *)
(* (see hash_step).  A function that can panic returns a record whose     *)
(* field panic says whether it did.                                        *)
(***************************************************************************)
EXTENDS Integers, Sequences, FiniteSets, TLC

VARIABLES
    pc,      \* the function about to run, or "done"
    bytes,   \* the input buffer (main.rs: bytes)
    args,    \* the remaining arguments of the function about to run
    ret,     \* what the functions that ran returned
    fs       \* the filesystem sink: what extract_tree created and wrote

vars == <<pc, bytes, args, ret, fs>>

PANIC == "panic"   \* pc after a panic: the process aborted
NONE == "none"
EmptyFs == [dirs |-> {}, writes |-> <<>>]

(***************************************************************************)
(* Slices and integers                                                     *)
(***************************************************************************)

\* &bytes[from..] with a 0-based start; the caller checks from <= len.
SliceFrom(b, from) == SubSeq(b, from + 1, Len(b))

\* &bytes[from..][..n]
Slice(b, from, n) == SubSeq(b, from + 1, from + n)

\* Whether &bytes[from..][..n] is in bounds (otherwise the index panics).
InBounds(b, from, n) == from >= 0 /\ n >= 0 /\ from + n <= Len(b)

SetMin(S) == CHOOSE x \in S : \A y \in S : x <= y
SetMax(S) == CHOOSE x \in S : \A y \in S : x >= y

u16_from_be_bytes(p) == p[1] * 256 + p[2]

u32_from_be_bytes(p) == ((p[1] * 256 + p[2]) * 256 + p[3]) * 256 + p[4]

\* u32::from_ne_bytes on x86 (little-endian).
u32_from_ne_bytes(p) == ((p[4] * 256 + p[3]) * 256 + p[2]) * 256 + p[1]

U16Bytes(n) == <<n \div 256, n % 256>>

U32Bytes(n) == <<n \div 16777216, (n \div 65536) % 256, (n \div 256) % 256, n % 256>>

RECURSIVE Zeros(_)
Zeros(n) == IF n <= 0 THEN <<>> ELSE <<0>> \o Zeros(n - 1)

RECURSIVE Concat(_)
Concat(ss) == IF ss = <<>> THEN <<>> ELSE Head(ss) \o Concat(Tail(ss))

RECURSIVE SeqsUpTo(_, _)
SeqsUpTo(S, n) ==
    IF n = 0 THEN {<<>>}
    ELSE LET shorter == SeqsUpTo(S, n - 1)
         IN shorter \cup {Append(q, x) : q \in {r \in shorter : Len(r) = n - 1}, x \in S}

RECURSIVE BitXor(_, _)
BitXor(a, b) ==
    IF a = 0 THEN b
    ELSE IF b = 0 THEN a
    ELSE ((a + b) % 2) + 2 * BitXor(a \div 2, b \div 2)

(***************************************************************************)
(* name.rs: hash_str                                                       *)
(***************************************************************************)

HashShift == 4
HashMaskBits == 28
HashFoldShift == 23

Pow2(n) == 2 ^ n

\* A mutant of hash_step: the character is added before the shift.
hash_step_shift_after(h, c) ==
    ((h + c) * Pow2(HashShift)) % Pow2(HashMaskBits)

\* One iteration of the loop of hash_str.  h enters below 2^28 (the previous
\* iteration masked it).  (h << 4) + c is a u32 that can reach 2^32, so it is
\* kept as its top nibble (the bits of g = h & 0xf0000000) and its low 28
\* bits: the shift moves h's bits 24..27 into the nibble and the addition
\* carries into it; the nibble wraps at 16 as the u32 does.
hash_step(h, c) ==
    LET keep == HashMaskBits - HashShift
        low  == (h % Pow2(keep)) * Pow2(HashShift) + c
        g    == ((h \div Pow2(keep)) + (low \div Pow2(HashMaskBits))) % Pow2(HashShift)
        rest == low % Pow2(HashMaskBits)
    IN IF g # 0
       THEN BitXor(rest, g * Pow2(HashMaskBits - HashFoldShift))
       ELSE rest

RECURSIVE hash_from(_, _, _)
hash_from(str, i, h) ==
    IF i > Len(str) THEN h ELSE hash_from(str, i + 1, hash_step(h, str[i]))

hash_str(str) == hash_from(str, 1, 0)

(***************************************************************************)
(* name.rs: scan_ascii_names, parse_names, scan_names                      *)
(***************************************************************************)

NameHeader == 6
HashField == 4
SizeField == 2
PairSize == 2
GraphicFirst == 33
GraphicLast == 126
HighSurrogateFirst == 55296
LowSurrogateFirst == 56320
SurrogateLast == 57343
SurrogateBits == 10
SupplementaryBase == 65536

\* char::is_ascii_graphic
is_ascii_graphic(c) == c >= GraphicFirst /\ c <= GraphicLast

\* stored == computed for a u32 read from four bytes and a value the model
\* holds as a number below 2^31: bytes with the top bit set equal none.
u32_bytes_eq(p, n) == p[1] < 128 /\ u32_from_be_bytes(p) = n

\* pair[0] == 0 && (pair[1] as char).is_ascii_graphic() for pair i of
\* bytes[6..].chunks_exact(2)
is_text(b, i) ==
    b[NameHeader + PairSize * i + 1] = 0 /\ is_ascii_graphic(b[NameHeader + PairSize * i + 2])

\* The loop of scan_ascii_names from pair i on, one run of text at a time:
\* the pairs before the run leave start at the pair the run begins with, the
\* pairs of the run build str, and the pair that ends the run reads the size
\* and hash fields at start - 6 and start - 4 of the slice the function was
\* given.  A run the slice ends in is dropped with the loop.
RECURSIVE scan_pairs(_, _, _, _, _)
scan_pairs(b, delta, i, start, offsets) ==
    LET n     == (Len(b) - NameHeader) \div PairSize
        texts == {k \in i..(n - 1) : is_text(b, k)}
    IN
    IF texts = {} THEN [panic |-> FALSE, offsets |-> offsets]
    ELSE
      LET first == SetMin(texts)
          ends  == {k \in first..(n - 1) : ~is_text(b, k)}
      IN
      IF ends = {} THEN [panic |-> FALSE, offsets |-> offsets]
      ELSE
        LET last   == SetMin(ends)
            str    == [k \in 1..(last - first) |->
                         b[NameHeader + PairSize * (first + k - 1) + 2]]
            begin  == IF first > i THEN PairSize * (first - 1) + delta + PairSize
                      ELSE start
            offset == PairSize * last + delta
        IN
        IF begin < NameHeader \/ ~InBounds(b, begin - NameHeader, SizeField)
        THEN [panic |-> TRUE, offsets |-> offsets]  \* start - 6 underflows
        ELSE
          LET size == u16_from_be_bytes(Slice(b, begin - NameHeader, SizeField))
          IN
          IF size = 0 \/ Len(str) < size
          THEN scan_pairs(b, delta, last + 1, offset + PairSize, offsets)
          ELSE IF ~InBounds(b, begin - HashField, HashField)
          THEN [panic |-> TRUE, offsets |-> offsets]
          ELSE
            LET sub   == SubSeq(str, 1, size)
                hash  == Slice(b, begin - HashField, HashField)
                found == IF u32_bytes_eq(hash, hash_str(sub))
                         THEN offsets \cup {begin - NameHeader}
                         ELSE offsets
            IN scan_pairs(b, delta, last + 1, offset + PairSize, found)

\* scan_ascii_names(offsets, b, delta): b is the slice the caller passes
\* (&bytes[0..] or &bytes[1..]); the result is the new offsets.
scan_ascii_names(offsets, b, delta) ==
    IF Len(b) < NameHeader THEN [panic |-> FALSE, offsets |-> offsets]
    ELSE scan_pairs(b, delta + NameHeader, 0, 0, offsets)

\* String::from_utf16: [ok, s] with s the scalar values, ok FALSE on an
\* unpaired surrogate.
RECURSIVE from_utf16(_)
from_utf16(units) ==
    IF units = <<>> THEN [ok |-> TRUE, s |-> <<>>]
    ELSE
      LET u == Head(units)
      IN
      IF u < HighSurrogateFirst \/ u > SurrogateLast
      THEN LET r == from_utf16(Tail(units))
           IN [ok |-> r.ok, s |-> <<u>> \o r.s]
      ELSE IF /\ u < LowSurrogateFirst
              /\ Len(units) >= 2
              /\ units[2] >= LowSurrogateFirst
              /\ units[2] <= SurrogateLast
      THEN LET r == from_utf16(Tail(Tail(units)))
               c == SupplementaryBase
                    + (u - HighSurrogateFirst) * Pow2(SurrogateBits)
                    + (units[2] - LowSurrogateFirst)
           IN [ok |-> r.ok, s |-> <<c>> \o r.s]
      ELSE [ok |-> FALSE, s |-> <<>>]

\* The for loop of parse_names that reads size u16s; it panics when a read
\* leaves the buffer.
RECURSIVE read_units(_, _, _)
read_units(b, offset, size) ==
    IF size = 0 THEN [panic |-> FALSE, units |-> <<>>]
    ELSE IF ~InBounds(b, offset, PairSize) THEN [panic |-> TRUE, units |-> <<>>]
    ELSE LET rest == read_units(b, offset + PairSize, size - 1)
         IN [panic |-> rest.panic,
             units |-> <<u16_from_be_bytes(Slice(b, offset, PairSize))>> \o rest.units]

\* A mutant of names_insert: keyed by the absolute offset of the entry.
names_insert_absolute(names, start, end, name) == (end :> name) @@ names

\* names.insert(end - start, name)
names_insert(names, start, end, name) == ((end - start) :> name) @@ names

\* The while loop of parse_names.
RECURSIVE parse_names_loop(_, _, _, _, _)
parse_names_loop(b, offset, start, end, names) ==
    LET result == [panic |-> FALSE, range |-> [start |-> start, end |-> end],
                   names |-> names]
        abort  == [result EXCEPT !.panic = TRUE]
    IN
    IF ~(offset < Len(b)) THEN result
    ELSE IF ~InBounds(b, offset, SizeField) THEN abort
    ELSE
      LET size == u16_from_be_bytes(Slice(b, offset, SizeField))
          hoff == offset + SizeField
      IN
      IF size = 0 THEN result
      ELSE IF ~InBounds(b, hoff, HashField) THEN abort
      ELSE
        LET hash  == Slice(b, hoff, HashField)
            toff  == hoff + HashField
            units == read_units(b, toff, size)
        IN
        IF units.panic THEN abort
        ELSE
          LET name == from_utf16(units.units)
              next == toff + PairSize * size
          IN
          IF ~name.ok THEN result
          ELSE IF ~u32_bytes_eq(hash, hash_str(name.s)) THEN result
          ELSE parse_names_loop(b, next, start, next,
                                names_insert(names, start, end, name.s))

parse_names(b, offset) == parse_names_loop(b, offset, offset, offset, <<>>)

\* RangeSet::contains over the ranges scan_names inserted.
ranges_contains(ranges, x) == \E r \in ranges : r.start <= x /\ x < r.end

\* The for loop of scan_names over the candidate offsets in ascending order.
RECURSIVE scan_names_loop(_, _, _, _)
scan_names_loop(b, todo, ranges, sections) ==
    IF todo = {} THEN [panic |-> FALSE, sections |-> sections]
    ELSE
      LET offset == CHOOSE o \in todo : \A o2 \in todo : o <= o2
          rest   == todo \ {offset}
      IN
      IF ranges_contains(ranges, offset)
      THEN scan_names_loop(b, rest, ranges, sections)
      ELSE
        LET parsed == parse_names(b, offset)
        IN
        IF parsed.panic THEN [panic |-> TRUE, sections |-> sections]
        ELSE IF parsed.range.start >= parsed.range.end
        THEN scan_names_loop(b, rest, ranges, sections)
        ELSE scan_names_loop(b, rest, ranges \cup {parsed.range},
                             (parsed.range.start :>
                                [range |-> parsed.range, names |-> parsed.names])
                             @@ sections)

\* The three steps of scan_names as calls on the state.  next is where the
\* caller goes on.
ScanAsciiNames0 ==
    /\ pc = "scan_ascii_names_0"
    /\ LET r == scan_ascii_names({}, SliceFrom(bytes, 0), 0)
       IN IF r.panic THEN pc' = PANIC /\ ret' = ret
          ELSE /\ ret' = [ret EXCEPT !.offsets = r.offsets]
               /\ pc' = "scan_ascii_names_1"
    /\ UNCHANGED <<bytes, args, fs>>

ScanAsciiNames1 ==
    /\ pc = "scan_ascii_names_1"
    /\ IF Len(bytes) < 1
       THEN pc' = PANIC /\ ret' = ret  \* &bytes[1..] of an empty buffer
       ELSE LET r == scan_ascii_names(ret.offsets, SliceFrom(bytes, 1), 1)
            IN IF r.panic THEN pc' = PANIC /\ ret' = ret
               ELSE /\ ret' = [ret EXCEPT !.offsets = r.offsets]
                    /\ pc' = "scan_names_loop"
    /\ UNCHANGED <<bytes, args, fs>>

ScanNamesLoop(next) ==
    /\ pc = "scan_names_loop"
    /\ LET r == scan_names_loop(bytes, ret.offsets, {}, <<>>)
       IN IF r.panic THEN pc' = PANIC /\ ret' = ret
          ELSE /\ ret' = [ret EXCEPT !.sections = r.sections]
               /\ pc' = next
    /\ UNCHANGED <<bytes, args, fs>>

(***************************************************************************)
(* Name tables as the packer writes them, and damaged ones                 *)
(***************************************************************************)

RECURSIVE encode_utf16be(_)
encode_utf16be(units) ==
    IF units = <<>> THEN <<>> ELSE U16Bytes(Head(units)) \o encode_utf16be(Tail(units))

\* The number of UTF-16 code units of a string of scalar values.
RECURSIVE utf16_len(_)
utf16_len(str) ==
    IF str = <<>> THEN 0
    ELSE (IF Head(str) >= SupplementaryBase THEN 2 ELSE 1) + utf16_len(Tail(str))

NameEntry(size, hash, units) == U16Bytes(size) \o U32Bytes(hash) \o encode_utf16be(units)

\* "a", "ab", U+10000 as a surrogate pair, a lone high surrogate
NameUnits ==
    {<<97>>, <<97, 98>>, <<HighSurrogateFirst, LowSurrogateFirst>>, <<HighSurrogateFirst>>}

\* The entries of one text: the size field counts code units or scalar
\* values; the hash field is the hash of the scalar values, the hash of the
\* code units, or wrong.
EntriesOf(units) ==
    LET dec == from_utf16(units)
        sizes == {Len(units)} \cup (IF dec.ok THEN {Len(dec.s)} ELSE {})
        hashes == {hash_str(units), hash_str(units) + 1}
                  \cup (IF dec.ok THEN {hash_str(dec.s)} ELSE {})
    IN {NameEntry(sz, hh, units) : sz \in sizes, hh \in hashes}

NameEntries == UNION {EntriesOf(u) : u \in NameUnits}

MaxEntries == 2

NameBuffers ==
    {Zeros(pad) \o Concat(tab) \o tail :
        pad \in {0, 2, 3},
        tab \in SeqsUpTo(NameEntries, MaxEntries) \ {<<>>},
        tail \in {<<>>, <<0>>, <<0, 0>>, <<0, 0, 0>>}}

(***************************************************************************)
(* parse_names on its own                                                  *)
(***************************************************************************)

InitParse ==
    /\ pc = "parse_names"
    /\ bytes \in NameBuffers
    /\ args \in {[offset |-> o] : o \in 0..3}
    /\ ret = NONE
    /\ fs = EmptyFs

ParseNames ==
    /\ pc = "parse_names"
    /\ LET r == parse_names(bytes, args.offset)
       IN IF r.panic THEN pc' = PANIC /\ ret' = ret
          ELSE /\ ret' = [range |-> r.range, names |-> r.names]
               /\ pc' = "done"
    /\ UNCHANGED <<bytes, args, fs>>

SpecParse == InitParse /\ [][ParseNames]_vars

\* The stored fields of the entry at relative offset rel of the table that
\* starts at start.
StoredSize(start, rel) == u16_from_be_bytes(Slice(bytes, start + rel, SizeField))
StoredHash(start, rel) == Slice(bytes, start + rel + SizeField, HashField)

\* C3 as stated: every (relative_offset, name) of the map parse_names
\* returns has hash_str(name) equal to the stored hash and the stored size
\* equal to the number of code points of name.
C3_AsStated ==
    (pc = "done") =>
        \A rel \in DOMAIN ret.names :
            /\ u32_bytes_eq(StoredHash(args.offset, rel), hash_str(ret.names[rel]))
            /\ StoredSize(args.offset, rel) = Len(ret.names[rel])

\* C3 amended: every (relative_offset, name) of the map parse_names returns
\* has hash_str(name) equal to the stored hash and the stored size equal to
\* the number of UTF-16 code units of name (two for each scalar value above
\* U+FFFF).
C3_StoredFields ==
    (pc = "done") =>
        \A rel \in DOMAIN ret.names :
            /\ u32_bytes_eq(StoredHash(args.offset, rel), hash_str(ret.names[rel]))
            /\ StoredSize(args.offset, rel) = utf16_len(ret.names[rel])

\* A table parsed from a non-zero start whose second entry holds a
\* surrogate pair.
C3_Witness ==
    /\ pc = "done"
    /\ args.offset > 0
    /\ Cardinality(DOMAIN ret.names) = 2
    /\ \E rel \in DOMAIN ret.names :
          rel > 0 /\ ret.names[rel] = <<SupplementaryBase>>

\* C16: parse_names returns for every buffer, one that ends in the middle
\* of an entry included, and the range it returns lies within the input and
\* covers the entries of the map it returns.
C16_TruncatedEntryStops ==
    (pc \in {"done", PANIC}) =>
        /\ pc = "done"
        /\ ret.range.start = args.offset
        /\ ret.range.end <= Len(bytes)
        /\ \A rel \in DOMAIN ret.names : args.offset + rel < ret.range.end

(***************************************************************************)
(* scan_names on its own                                                   *)
(***************************************************************************)

InitNames ==
    /\ pc = "scan_ascii_names_0"
    /\ bytes \in NameBuffers
    /\ args = NONE
    /\ ret = [offsets |-> {}, sections |-> <<>>]
    /\ fs = EmptyFs

NextNames == ScanAsciiNames0 \/ ScanAsciiNames1 \/ ScanNamesLoop("done")

SpecNames == InitNames /\ [][NextNames]_vars

\* The UTF-16 BE text of n code units at 0-based offset o is ASCII-graphic.
RECURSIVE AsciiTextAt(_, _)
AsciiTextAt(o, n) ==
    \/ n = 0
    \/ /\ bytes[o + 1] = 0
       /\ is_ascii_graphic(bytes[o + 2])
       /\ AsciiTextAt(o + PairSize, n - 1)

RECURSIVE TextAt(_, _)
TextAt(o, n) == IF n = 0 THEN <<>> ELSE <<bytes[o + 2]>> \o TextAt(o + PairSize, n - 1)

\* A valid name entry starts at p: size > 0, ASCII-graphic text of exactly
\* size code units, the correct hash, and after the text a pair that breaks
\* the 00 XX pattern.
ValidAsciiEntryAt(p) ==
    /\ InBounds(bytes, p, NameHeader)
    /\ LET size == StoredSize(p, 0)
           text == p + NameHeader
           after == text + PairSize * size
       IN /\ size > 0
          /\ InBounds(bytes, text, PairSize * size + PairSize)
          /\ AsciiTextAt(text, size)
          /\ u32_bytes_eq(StoredHash(p, 0), hash_str(TextAt(text, size)))
          /\ ~(bytes[after + 1] = 0 /\ is_ascii_graphic(bytes[after + 2]))

\* p is where a table starts: only padding comes before it.
TableStart(p) == \A i \in 1..p : bytes[i] = 0

\* C4: a valid name entry at an odd absolute offset p that starts a table
\* is recorded as a candidate by the delta = 1 pass and scan_names returns
\* a table whose range starts at p.
C4_OddTablesFound ==
    (pc \in {"done", PANIC}) =>
        \A p \in 0..Len(bytes) :
            (p % 2 = 1 /\ TableStart(p) /\ ValidAsciiEntryAt(p)) =>
                /\ pc = "done"
                /\ p \in ret.offsets
                /\ p \in DOMAIN ret.sections

(***************************************************************************)
(* tree.rs: Entry, parse_tree, collect_data_offsets, find_tree_offsets     *)
(***************************************************************************)

EntrySize == 22
TreeStride == 8
DirectoryBit == 2
CompressedBit == 1
MaxFlags == 2

\* flags & bit != 0 for a one-bit mask
HasBit(flags, bit) == (flags \div bit) % 2 = 1

\* EntryData with the two fields of Directory declared in the other order.
entry_data_swapped(flags, payload) ==
    IF HasBit(flags, DirectoryBit)
    THEN [kind |-> "Directory",
          node_id |-> u32_from_be_bytes(SubSeq(payload, 1, 4)),
          count |-> u32_from_be_bytes(SubSeq(payload, 5, 8))]
    ELSE [kind |-> "File",
          locale |-> u32_from_be_bytes(SubSeq(payload, 1, 4)),
          data_offset |-> u32_from_be_bytes(SubSeq(payload, 5, 8))]

\* EntryData: the variant whose pre_assert on flags holds, its fields read
\* big-endian in declaration order.
entry_data(flags, payload) ==
    IF HasBit(flags, DirectoryBit)
    THEN [kind |-> "Directory",
          count |-> u32_from_be_bytes(SubSeq(payload, 1, 4)),
          node_id |-> u32_from_be_bytes(SubSeq(payload, 5, 8))]
    ELSE [kind |-> "File",
          locale |-> u32_from_be_bytes(SubSeq(payload, 1, 4)),
          data_offset |-> u32_from_be_bytes(SubSeq(payload, 5, 8))]

\* Entry::read on the 22 bytes of one record.
entry_read(rec) ==
    LET flags == u16_from_be_bytes(SubSeq(rec, 5, 6))
    IN [name_offset |-> u32_from_be_bytes(SubSeq(rec, 1, 4)),
        flags |-> flags,
        data |-> entry_data(flags, SubSeq(rec, 7, 14)),
        last_modified |-> SubSeq(rec, 15, 22)]

\* The entry with node id id of the tree slice b.
entry_at(b, id) == entry_read(Slice(b, id * EntrySize, EntrySize))

\* The two size checks every walk of the tree starts with.
node_range_fits(b, node_id, count) ==
    /\ ~(Len(b) \div EntrySize <= node_id)
    /\ ~((Len(b) \div EntrySize) - node_id <= count)

\* A mutant of flags_ok: flags 3 let through.
flags_ok_upto3(flags) == ~(flags > MaxFlags + 1)

\* "Do the flags make sense?"
flags_ok(flags) == ~(flags > MaxFlags)

\* Whether node_ids contains any id of node_id..node_id + count.
ids_seen(node_ids, node_id, count) ==
    \E id \in node_id..(node_id + count - 1) : id \in node_ids

\* parse_tree returns [panic, result, node_ids, read]: result is the
\* function's return value, node_ids the RangeSet it updated (as the set of
\* ids it covers), and read the entries it read, in order (kept to state
\* properties of the traversal; the code does not keep it).
RECURSIVE parse_tree(_, _, _, _, _, _)
RECURSIVE parse_entries(_, _, _, _, _, _, _, _)

parse_tree(name_offsets, node_ids, read, b, node_id, count) ==
    LET reject == [panic |-> FALSE, result |-> 0, node_ids |-> node_ids, read |-> read]
    IN
    IF ~node_range_fits(b, node_id, count) THEN reject
    ELSE IF ids_seen(node_ids, node_id, count) THEN reject
    ELSE IF count = 0
    THEN [reject EXCEPT !.panic = TRUE]  \* RangeSet::insert of an empty range
    ELSE parse_entries(name_offsets,
                       node_ids \cup (node_id..(node_id + count - 1)),
                       read, b, node_id, 0, count, 0)

\* The for loop of parse_tree: i entries of the slice are done.
parse_entries(name_offsets, node_ids, read, b, node_id, i, count, result) ==
    IF i = count
    THEN [panic |-> FALSE, result |-> result, node_ids |-> node_ids, read |-> read]
    ELSE
      LET entry == entry_at(b, node_id + i)
          seen  == Append(read, [id |-> node_id + i, entry |-> entry])
          reject == [panic |-> FALSE, result |-> 0, node_ids |-> node_ids, read |-> seen]
      IN
      IF entry.name_offset \notin name_offsets THEN reject
      ELSE IF ~flags_ok(entry.flags) THEN reject
      ELSE IF entry.data.kind = "Directory"
      THEN LET sub == parse_tree(name_offsets, node_ids, seen, b,
                                 entry.data.node_id, entry.data.count)
           IN IF sub.panic \/ sub.result = 0
              THEN [sub EXCEPT !.result = 0]
              ELSE parse_entries(name_offsets, sub.node_ids, sub.read, b,
                                 node_id, i + 1, count, result + sub.result + 1)
      ELSE parse_entries(name_offsets, node_ids, seen, b,
                         node_id, i + 1, count, result + 1)

\* The candidate offsets (0..bytes.len()).step_by(8).
tree_candidates(b) == {o \in 0..(Len(b) - 1) : o % TreeStride = 0}

\* One candidate of find_tree_offsets: a fresh node_ids, the root (0, 1).
tree_attempt(names, b, offset) ==
    parse_tree(DOMAIN names, {}, <<>>, SliceFrom(b, offset), 0, 1)

\* "Did this tree use all of our name offsets?"
tree_accepted(names, count) == count >= Cardinality(DOMAIN names)

\* find_tree_offsets: [panic, tree_offsets, attempts], attempts being the
\* result of parse_tree for each candidate (kept to state properties).
find_tree_offsets(names, b) ==
    LET attempts == [o \in tree_candidates(b) |-> tree_attempt(names, b, o)]
    IN [panic |-> \E o \in DOMAIN attempts : attempts[o].panic,
        tree_offsets |-> {o \in DOMAIN attempts : tree_accepted(names, attempts[o].result)},
        attempts |-> attempts]

\* collect_data_offsets has no visited set: on a tree whose directories
\* form a cycle it recurses until the stack overflows.  depth counts the
\* directories entered; more than there are records means a cycle.
RECURSIVE collect_data_offsets_at(_, _, _, _)
RECURSIVE collect_entries(_, _, _, _, _)

collect_data_offsets_at(b, node_id, count, depth) ==
    IF ~node_range_fits(b, node_id, count) THEN [panic |-> FALSE, offsets |-> {}]
    ELSE IF depth > Len(b) \div EntrySize THEN [panic |-> TRUE, offsets |-> {}]
    ELSE collect_entries(b, node_id, 0, count, depth)

collect_entries(b, node_id, i, count, depth) ==
    IF i = count THEN [panic |-> FALSE, offsets |-> {}]
    ELSE
      LET entry == entry_at(b, node_id + i)
          here  == IF entry.data.kind = "Directory"
                   THEN collect_data_offsets_at(b, entry.data.node_id,
                                                entry.data.count, depth + 1)
                   ELSE [panic |-> FALSE, offsets |-> {entry.data.data_offset}]
          rest  == IF here.panic THEN here
                   ELSE collect_entries(b, node_id, i + 1, count, depth)
      IN [panic |-> here.panic \/ rest.panic,
          offsets |-> here.offsets \cup rest.offsets]

collect_data_offsets(b, node_id, count) == collect_data_offsets_at(b, node_id, count, 0)

FindTreeOffsets(next) ==
    /\ pc = "find_tree_offsets"
    /\ LET r == find_tree_offsets(args.names, bytes)
       IN IF r.panic THEN pc' = PANIC /\ ret' = ret
          ELSE /\ ret' = [ret EXCEPT !.tree_offsets = r.tree_offsets,
                                     !.attempts = r.attempts]
               /\ pc' = next
    /\ UNCHANGED <<bytes, args, fs>>

(***************************************************************************)
(* Trees as the packer writes them, and damaged ones                       *)
(***************************************************************************)

TreeEntry(name_offset, flags, first, second) ==
    U32Bytes(name_offset) \o U16Bytes(flags) \o U32Bytes(first) \o U32Bytes(second)
    \o Zeros(EntrySize - 14)

DirEntry(name_offset, count, node_id) == TreeEntry(name_offset, DirectoryBit, count, node_id)
FileEntry(name_offset, flags, data_offset) == TreeEntry(name_offset, flags, 0, data_offset)

\* Names of two characters follow each other NameStride bytes apart;
\* NameKeyBad is an offset inside an entry, which is no key.
NameStride == NameHeader + PairSize * 2
NameKey(i) == NameStride * i
NameKeyBad == HashField
TwoNames == (NameKey(0) :> <<97, 98>>) @@ (NameKey(1) :> <<99, 100>>)
OneName == (NameKey(0) :> <<97, 98>>)

TreeEntryChoices ==
    { DirEntry(NameKey(0), 1, 1), DirEntry(NameKey(0), 2, 1), DirEntry(NameKey(1), 1, 2),
      DirEntry(NameKey(0), 1, 0), DirEntry(NameKey(1), 0, 1),
      FileEntry(NameKey(0), 0, 0), FileEntry(NameKey(1), 0, 0), FileEntry(NameKey(1), CompressedBit, 0),
      FileEntry(NameKeyBad, 0, 0), TreeEntry(NameKey(0), DirectoryBit + CompressedBit, 1, 2) }

MaxNodes == 3
TreePad == TreeStride

TreeBuffers ==
    LET k0 == NameKey(0)
        k1 == NameKey(1)
        \* Trees of four entries: a directory of two files, a directory in
        \* a directory, a child range that was visited before, bad flags.
        deep == { <<DirEntry(k0, 2, 1), FileEntry(k0, 0, 0), FileEntry(k1, 0, 0),
                    FileEntry(k1, 0, 0)>>,
                  <<DirEntry(k0, 1, 1), DirEntry(k1, 1, 2), FileEntry(k1, 0, 0),
                    FileEntry(k0, 0, 0)>>,
                  <<DirEntry(k0, 2, 1), FileEntry(k0, 0, 0), DirEntry(k1, 1, 1),
                    FileEntry(k1, 0, 0)>>,
                  <<TreeEntry(k0, DirectoryBit + CompressedBit, 1, 2),
                    FileEntry(k1, 0, 0), FileEntry(k1, 0, 0), FileEntry(k1, 0, 0)>> }
    IN {Zeros(TreePad) \o Concat(es) :
           es \in (SeqsUpTo(TreeEntryChoices, MaxNodes) \ {<<>>}) \cup deep}

(***************************************************************************)
(* find_tree_offsets on its own                                            *)
(***************************************************************************)

InitTree ==
    /\ pc = "find_tree_offsets"
    /\ bytes \in TreeBuffers
    /\ args \in {[names |-> n] : n \in {OneName, TwoNames}}
    /\ ret = [tree_offsets |-> {}, attempts |-> <<>>]
    /\ fs = EmptyFs

SpecTree == InitTree /\ [][FindTreeOffsets("done")]_vars

\* The name offsets of the entries a traversal read.
NamesRead(attempt) == {attempt.read[i].entry.name_offset : i \in DOMAIN attempt.read}

\* C5: for every accepted candidate offset the validating traversal read
\* only entries whose name_offset is a key of the name table and whose
\* flags are <= 2, and the count it returned is the number of entries
\* visited and is at least the number of names.
C5_AcceptedTreeIsValid ==
    (pc = "done") =>
        \A o \in ret.tree_offsets :
            LET a == ret.attempts[o]
            IN /\ \A i \in DOMAIN a.read :
                      /\ a.read[i].entry.name_offset \in DOMAIN args.names
                      /\ a.read[i].entry.flags <= MaxFlags
               /\ a.result = Len(a.read)
               /\ a.result = Cardinality(a.node_ids)
               /\ a.result >= Cardinality(DOMAIN args.names)

\* A tree of a directory with two children is accepted for a two-name table.
C5_Witness ==
    /\ pc = "done"
    /\ Cardinality(DOMAIN args.names) = 2
    /\ \E o \in ret.tree_offsets :
          /\ ret.attempts[o].result = 3
          /\ NamesRead(ret.attempts[o]) = DOMAIN args.names

VisitedBefore(attempt, i) ==
    {0} \cup UNION {attempt.read[j].entry.data.node_id ..
                      (attempt.read[j].entry.data.node_id
                         + attempt.read[j].entry.data.count - 1) :
                    j \in {k \in 1..(i - 1) : attempt.read[k].entry.data.kind = "Directory"}}

\* C14: find_tree_offsets returns for every input, and in each candidate's
\* traversal no node id is read twice: a directory entry whose child range
\* meets the ids visited before it makes the candidate's result 0.
C14_NoNodeTwice ==
    (pc \in {"done", PANIC}) =>
        /\ pc = "done"
        /\ \A o \in DOMAIN ret.attempts :
              LET a == ret.attempts[o]
              IN \A i \in DOMAIN a.read :
                    /\ \A j \in DOMAIN a.read : i # j => a.read[i].id # a.read[j].id
                    /\ (/\ a.read[i].entry.data.kind = "Directory"
                        /\ \E id \in VisitedBefore(a, i) :
                              /\ a.read[i].entry.data.node_id <= id
                              /\ id < a.read[i].entry.data.node_id
                                        + a.read[i].entry.data.count)
                       => a.result = 0

(***************************************************************************)
(* tree.rs: find_blob_offsets                                              *)
(***************************************************************************)

BlobHeader == 4

\* A BTreeSet of numbers as the ascending Vec its iterator yields.
RECURSIVE SortedSeq(_)
SortedSeq(S) ==
    IF S = {} THEN <<>>
    ELSE LET m == CHOOSE x \in S : \A y \in S : x <= y
         IN <<m>> \o SortedSeq(S \ {m})

\* offsets.windows(2).map(|pair| pair[1] - pair[0] - 4): usize arithmetic.
\* A difference below 4 overflows: with overflow checks (a debug build) the
\* subtraction panics, without them (a release build) it wraps to
\* 2^64 + d - 4, which is written here as the negative number d - 4; no u32
\* equals it.
blob_deltas(offsets, overflow_checks) ==
    LET ds == [i \in 1..(Len(offsets) - 1) |-> offsets[i + 1] - offsets[i] - BlobHeader]
    IN [panic |-> overflow_checks /\ \E i \in DOMAIN ds : ds[i] < 0,
        deltas |-> ds]

\* A mutant of size_differs: the test of the chain inverted.
size_differs_inverted(window, delta) == u32_bytes_eq(window, delta)

\* size != delta for the u32 read from window.
size_differs(window, delta) == ~u32_bytes_eq(window, delta)

\* "Point to the next blob."
next_blob(offset, size) == offset + size + BlobHeader

\* The inner loop of find_blob_offsets from the window at offset, whose size
\* equalled the previous delta: [panic, found].
RECURSIVE walk_chain(_, _, _, _)
walk_chain(b, offset, size, deltas) ==
    IF deltas = <<>> THEN [panic |-> FALSE, found |-> TRUE]
    ELSE
      LET next == next_blob(offset, size)
      IN
      IF ~InBounds(b, next, BlobHeader) THEN [panic |-> TRUE, found |-> FALSE]
      ELSE IF size_differs(Slice(b, next, BlobHeader), Head(deltas))
      THEN [panic |-> FALSE, found |-> FALSE]
      ELSE walk_chain(b, next, Head(deltas), Tail(deltas))

\* One window of the outer loop.
blob_candidate(b, start, deltas) ==
    IF size_differs(Slice(b, start, BlobHeader), Head(deltas))
    THEN [panic |-> FALSE, found |-> FALSE]
    ELSE walk_chain(b, start, Head(deltas), Tail(deltas))

\* find_blob_offsets: [panic, blob_offsets, offsets], offsets being the
\* data offsets it collected from the tree.
find_blob_offsets(tree_offset, b, overflow_checks) ==
    LET collected == collect_data_offsets(SliceFrom(b, tree_offset), 0, 1)
        offsets == SortedSeq(collected.offsets)
        d == blob_deltas(offsets, overflow_checks)
        starts == 0..(Len(b) - BlobHeader)
        tried == [st \in starts |-> blob_candidate(b, st, d.deltas)]
    IN
    IF collected.panic \/ d.panic
    THEN [panic |-> TRUE, blob_offsets |-> {}, offsets |-> offsets]
    ELSE IF d.deltas = <<>>
    THEN [panic |-> FALSE, blob_offsets |-> {}, offsets |-> offsets]
    ELSE [panic |-> \E st \in starts : tried[st].panic,
          blob_offsets |-> {st \in starts : tried[st].found},
          offsets |-> offsets]

FindBlobOffsets(next) ==
    /\ pc = "find_blob_offsets"
    /\ LET r == find_blob_offsets(args.tree_offset, bytes, args.overflow_checks)
       IN IF r.panic THEN pc' = PANIC /\ ret' = ret
          ELSE /\ ret' = [ret EXCEPT !.blob_offsets = r.blob_offsets,
                                     !.data_offsets = r.offsets]
               /\ pc' = next
    /\ UNCHANGED <<bytes, args, fs>>

(***************************************************************************)
(* Blob regions as the packer writes them, trees of files, decoys          *)
(***************************************************************************)


RECURSIVE Fill(_, _)
Fill(n, x) == IF n <= 0 THEN <<>> ELSE <<x>> \o Fill(n - 1, x)

BlobRecord(size) == U32Bytes(size) \o Fill(size, 7)

RECURSIVE BlobRegion(_)
BlobRegion(sizes) ==
    IF sizes = <<>> THEN <<>> ELSE BlobRecord(Head(sizes)) \o BlobRegion(Tail(sizes))

\* The data offsets of the records of a region.
RECURSIVE RegionOffsets(_, _)
RegionOffsets(sizes, at) ==
    IF sizes = <<>> THEN <<>>
    ELSE <<at>> \o RegionOffsets(Tail(sizes), at + BlobHeader + Head(sizes))

RECURSIVE FileEntries(_, _)
FileEntries(data_offsets, i) ==
    IF i > Len(data_offsets) THEN <<>>
    ELSE FileEntry(IF i % 2 = 1 THEN NameKey(0) ELSE NameKey(1), 0, data_offsets[i])
         \o FileEntries(data_offsets, i + 1)

\* A root directory over one file per data offset, then one spare record.
FlatTree(data_offsets) ==
    DirEntry(NameKey(0), Len(data_offsets), 1) \o FileEntries(data_offsets, 1)
    \o Zeros(EntrySize)

MaxFiles == 3
\* The sizes of the records of a region, one per file.
RegionSizes == SeqsUpTo({1, 2}, MaxFiles) \ {<<>>}

\* The data offsets a tree carries: those of a region, or damaged ones
\* (two files less than a header apart).
TreeOffsetLists ==
    {RegionOffsets(sz, 0) : sz \in RegionSizes} \cup {<<0, 2>>, <<0, 5, 7>>}

\* What stands between the tree and the region, and after the region: a
\* decoy is a size field equal to the record size 1 or 2 with no chain.
BlobBundles ==
    LET decoys == {<<>>, <<0, 0, 0, 1>>, <<0, 0, 0, 2, 0, 0>>}
    IN {[tree |-> offs, sizes |-> sz, before |-> d1, after |-> d2] :
           offs \in TreeOffsetLists, sz \in RegionSizes,
           d1 \in decoys, d2 \in decoys}

BundleBlobBase(bundle) ==
    TreePad + Len(FlatTree(bundle.tree)) + Len(bundle.before)

BundleBytes(bundle) ==
    Zeros(TreePad) \o FlatTree(bundle.tree) \o bundle.before
    \o BlobRegion(bundle.sizes) \o bundle.after

(***************************************************************************)
(* find_blob_offsets on its own                                            *)
(***************************************************************************)

InitBlob ==
    /\ pc = "find_blob_offsets"
    /\ \E bundle \in BlobBundles, oc \in BOOLEAN :
          /\ bytes = BundleBytes(bundle)
          /\ args = [tree_offset |-> TreePad, overflow_checks |-> oc,
                     data_offsets |-> bundle.tree,
                     blob_base |-> BundleBlobBase(bundle)]
    /\ ret = [blob_offsets |-> {}, data_offsets |-> <<>>]
    /\ fs = EmptyFs

SpecBlob == InitBlob /\ [][FindBlobOffsets("done")]_vars

\* D[i] = off[i+1] - off[i] - 4 over the data offsets the tree was built
\* from, and the position of the i-th size of the chain that starts at B.
Delta(i) == args.data_offsets[i + 1] - args.data_offsets[i] - BlobHeader
RECURSIVE ChainPos(_, _)
ChainPos(B, i) == IF i = 1 THEN B ELSE ChainPos(B, i - 1) + BlobHeader + Delta(i - 1)

\* The big-endian u32 at 0-based position q of the buffer equals n.
SizeAt(q, n) ==
    /\ InBounds(bytes, q, BlobHeader)
    /\ u32_bytes_eq(Slice(bytes, q, BlobHeader), n)

FullChainAt(B) ==
    \A i \in 1..(Len(args.data_offsets) - 1) : SizeAt(ChainPos(B, i), Delta(i))

\* C7: every start B that find_blob_offsets returns has, for every i, the
\* big-endian u32 at B + sum over j < i of (4 + D[j]) equal to D[i].
C7_S1Sound ==
    (pc = "done") =>
        /\ ret.data_offsets = args.data_offsets
        /\ \A B \in ret.blob_offsets : FullChainAt(B)

\* A chain of two sizes was matched at the base of the region.
C7_Witness ==
    /\ pc = "done"
    /\ Len(args.data_offsets) = 3
    /\ args.blob_base \in ret.blob_offsets

\* C8: when the bytes hold the full size chain at the base B,
\* find_blob_offsets completes and its result contains B, whatever other
\* windows equal the first delta; windows without a full chain are not in
\* the result.
C8_DecoysRejected ==
    (pc \in {"done", PANIC} /\ Len(args.data_offsets) >= 2
        /\ FullChainAt(args.blob_base)) =>
            /\ pc = "done"
            /\ args.blob_base \in ret.blob_offsets
            /\ \A B \in ret.blob_offsets : FullChainAt(B)

(***************************************************************************)
(* tree.rs: Blob, extract_tree                                             *)
(***************************************************************************)

Slash == 47
ZlibMagic == 120
SizeHint == 4

\* PathBuf::push on a path kept as the sequence of the names pushed: a name
\* that starts with "/" is absolute and replaces the path.
path_push(path, name) ==
    IF name # <<>> /\ name[1] = Slash THEN <<name>> ELSE Append(path, name)

\* A mutant of blob_read: the assertion on the size is missing and the
\* payload starts at the size field.
blob_read_from_header(blobs) ==
    IF Len(blobs) < BlobHeader THEN [ok |-> FALSE, bytes |-> <<>>]
    ELSE LET size == u32_from_be_bytes(SubSeq(blobs, 1, BlobHeader))
         IN IF Len(blobs) < size
            THEN [ok |-> FALSE, bytes |-> <<>>]
            ELSE [ok |-> TRUE, bytes |-> SubSeq(blobs, 1, size)]

\* Blob::read at the start of the slice: a big-endian u32 _size, asserted
\* non-zero, then _size bytes.
blob_read(blobs) ==
    IF Len(blobs) < BlobHeader THEN [ok |-> FALSE, bytes |-> <<>>]
    ELSE LET size == u32_from_be_bytes(SubSeq(blobs, 1, BlobHeader))
         IN IF size = 0 \/ Len(blobs) - BlobHeader < size
            THEN [ok |-> FALSE, bytes |-> <<>>]
            ELSE [ok |-> TRUE, bytes |-> SubSeq(blobs, BlobHeader + 1, BlobHeader + size)]

\* ZlibDecoder::read_to_end, the decompression service: it stands for
\* inflate as "a stream is the magic byte and then the content".
inflate(stream) ==
    IF stream # <<>> /\ stream[1] = ZlibMagic
    THEN [ok |-> TRUE, bytes |-> Tail(stream)]
    ELSE [ok |-> FALSE, bytes |-> <<>>]

\* std::fs::create_dir_all and std::fs::write on the sink: a directory
\* cannot be made where a file is, nor a file written where a directory is.
FileAt(sink, path) == \E i \in DOMAIN sink.writes : sink.writes[i].path = path

create_dir_all(sink, path) ==
    IF FileAt(sink, path) THEN [ok |-> FALSE, fs |-> sink]
    ELSE [ok |-> TRUE, fs |-> [sink EXCEPT !.dirs = @ \cup {path}]]

fs_write(sink, path, content) ==
    IF path \in sink.dirs THEN [ok |-> FALSE, fs |-> sink]
    ELSE [ok |-> TRUE,
          fs |-> [sink EXCEPT !.writes = Append(@, [path |-> path, content |-> content])]]

\* extract_tree returns [panic, ok, fs]: ok is Ok(()) against Err.  Like
\* collect_data_offsets it has no visited set; depth stands for the stack.
RECURSIVE extract_tree(_, _, _, _, _, _, _, _)
RECURSIVE extract_entries(_, _, _, _, _, _, _, _, _)

extract_tree(root, names, blobs, b, node_id, count, sink, depth) ==
    IF ~node_range_fits(b, node_id, count) THEN [panic |-> FALSE, ok |-> TRUE, fs |-> sink]
    ELSE IF depth > Len(b) \div EntrySize THEN [panic |-> TRUE, ok |-> FALSE, fs |-> sink]
    ELSE extract_entries(root, names, blobs, b, node_id, 0, count, sink, depth)

extract_entries(root, names, blobs, b, node_id, i, count, sink, depth) ==
    IF i = count THEN [panic |-> FALSE, ok |-> TRUE, fs |-> sink]
    ELSE
      LET entry == entry_at(b, node_id + i)
          skip  == extract_entries(root, names, blobs, b, node_id, i + 1, count, sink, depth)
      IN
      IF entry.name_offset \notin DOMAIN names THEN skip
      ELSE
        LET path == path_push(root, names[entry.name_offset])
        IN
        IF entry.data.kind = "Directory"
        THEN LET made == create_dir_all(sink, path)
             IN IF ~made.ok THEN [panic |-> FALSE, ok |-> FALSE, fs |-> sink]
                ELSE LET sub == extract_tree(path, names, blobs, b, entry.data.node_id,
                                             entry.data.count, made.fs, depth + 1)
                     IN IF sub.panic \/ ~sub.ok THEN sub
                        ELSE extract_entries(root, names, blobs, b, node_id, i + 1,
                                             count, sub.fs, depth)
        ELSE IF entry.data.data_offset > Len(blobs)
        THEN [panic |-> TRUE, ok |-> FALSE, fs |-> sink]  \* &blobs[data_offset..]
        ELSE
          LET blob == blob_read(SliceFrom(blobs, entry.data.data_offset))
          IN
          IF ~blob.ok THEN skip
          ELSE IF HasBit(entry.flags, CompressedBit) /\ Len(blob.bytes) < SizeHint
          THEN [panic |-> TRUE, ok |-> FALSE, fs |-> sink]  \* &blob.bytes[4..]
          ELSE
            LET z == IF HasBit(entry.flags, CompressedBit)
                     THEN inflate(SubSeq(blob.bytes, SizeHint + 1, Len(blob.bytes)))
                     ELSE [ok |-> TRUE, bytes |-> blob.bytes]
                w == fs_write(sink, path, z.bytes)
            IN
            IF ~z.ok \/ ~w.ok THEN [panic |-> FALSE, ok |-> FALSE, fs |-> sink]
            ELSE extract_entries(root, names, blobs, b, node_id, i + 1, count, w.fs, depth)

\* The call main makes: the root (0, 1), the output root the empty path.
ExtractTree(next) ==
    /\ pc = "extract_tree"
    /\ LET r == extract_tree(<<>>, args.names, SliceFrom(bytes, args.blob_base),
                             SliceFrom(bytes, args.tree_offset), 0, 1, fs, 0)
       IN /\ fs' = r.fs
          /\ pc' = IF r.panic THEN PANIC ELSE IF r.ok THEN next ELSE "failed"
    /\ UNCHANGED <<bytes, args, ret>>

(***************************************************************************)
(* Bundles for extraction: a name table, a tree and its blob region        *)
(***************************************************************************)

\* The name table of names of two characters: key 0 is the root, key
\* 10 * i is file i, the last key is the sub-directory.
BundleName(i) == <<97 + 2 * i, 98 + 2 * i>>
SubDirIndex == MaxFiles + 1
BundleNames == [k \in {NameStride * i : i \in 0..SubDirIndex} |-> BundleName(k \div NameStride)]

\* What the packer stores for one file: flags and the payload of the record
\* (for a compressed file the size hint and the stream).  The last two are
\* damaged: a compressed payload shorter than the hint, a stream that does
\* not inflate.
StoredFiles ==
    { [flags |-> 0, payload |-> <<>>],
      [flags |-> 0, payload |-> <<104>>],
      [flags |-> 0, payload |-> <<104, 105, 33>>],
      [flags |-> CompressedBit, payload |-> U32Bytes(2) \o <<ZlibMagic, 104, 105>>],
      [flags |-> CompressedBit, payload |-> <<1, 2>>],
      [flags |-> CompressedBit, payload |-> U32Bytes(1) \o <<0, 104>>] }

RECURSIVE StoredRegion(_)
StoredRegion(files) ==
    IF files = <<>> THEN <<>>
    ELSE U32Bytes(Len(Head(files).payload)) \o Head(files).payload
         \o StoredRegion(Tail(files))

RECURSIVE StoredOffsets(_, _)
StoredOffsets(files, at) ==
    IF files = <<>> THEN <<>>
    ELSE <<at>> \o StoredOffsets(Tail(files), at + BlobHeader + Len(Head(files).payload))

\* The file entries of files from..to, in order.
RECURSIVE StoredEntries(_, _, _)
StoredEntries(files, from, to) ==
    IF from > to THEN <<>>
    ELSE FileEntry(NameStride * from, files[from].flags, StoredOffsets(files, 0)[from])
         \o StoredEntries(files, from + 1, to)

\* flat: the root holds every file.  nested: the root holds a
\* sub-directory with all files but the last, and the last file.
StoredTree(shape, files) ==
    LET k == Len(files)
    IN IF shape = "flat"
       THEN DirEntry(0, k, 1) \o StoredEntries(files, 1, k) \o Zeros(EntrySize)
       ELSE DirEntry(0, 2, 1)
            \o DirEntry(NameStride * SubDirIndex, k - 1, 3)
            \o StoredEntries(files, k, k)
            \o StoredEntries(files, 1, k - 1)
            \o Zeros(EntrySize)

StoredPath(shape, k, i) ==
    IF shape = "flat" \/ i = k
    THEN <<BundleName(0), BundleName(i)>>
    ELSE <<BundleName(0), BundleName(SubDirIndex), BundleName(i)>>

StoredBundles ==
    {[shape |-> sh, files |-> fl] :
        sh \in {"flat", "nested"},
        fl \in {f \in SeqsUpTo(StoredFiles, MaxFiles) : Len(f) >= 2}}

StoredBytes(bundle) ==
    Zeros(TreePad) \o StoredTree(bundle.shape, bundle.files) \o StoredRegion(bundle.files)

(***************************************************************************)
(* extract_tree on its own                                                 *)
(***************************************************************************)

InitExtract ==
    /\ pc = "extract_tree"
    /\ \E bundle \in StoredBundles :
          /\ bytes = StoredBytes(bundle)
          /\ args = [names |-> BundleNames,
                     tree_offset |-> TreePad,
                     blob_base |-> TreePad + Len(StoredTree(bundle.shape, bundle.files)),
                     files |-> [i \in 1..Len(bundle.files) |->
                                  [path |-> StoredPath(bundle.shape, Len(bundle.files), i),
                                   flags |-> bundle.files[i].flags,
                                   data_offset |-> StoredOffsets(bundle.files, 0)[i]]]]
    /\ ret = NONE
    /\ fs = EmptyFs

SpecExtract == InitExtract /\ [][ExtractTree("done")]_vars

\* The record at blob_base + data_offset as the buffer holds it.
RecordSize(f) == u32_from_be_bytes(Slice(bytes, args.blob_base + f.data_offset, BlobHeader))
RecordPayload(f) == Slice(bytes, args.blob_base + f.data_offset + BlobHeader, RecordSize(f))

Written(path, content) ==
    \E i \in DOMAIN fs.writes : fs.writes[i] = [path |-> path, content |-> content]

\* The bundle is one the packer writes: every compressed payload is a size
\* hint and a stream that inflates.
PackerMade ==
    \A i \in DOMAIN args.files :
        HasBit(args.files[i].flags, CompressedBit) =>
            /\ RecordSize(args.files[i]) > SizeHint
            /\ RecordPayload(args.files[i])[SizeHint + 1] = ZlibMagic

Returned == pc \in {"done", "failed", PANIC}

\* C9 as stated: for every file entry whose flags bit 0 is clear,
\* extract_tree writes at the path of its ancestors' names and its own name
\* exactly the payload of its record, a file of length 0 included.
C9_AsStated ==
    (Returned /\ PackerMade) =>
        /\ pc = "done"
        /\ \A i \in DOMAIN args.files :
              ~HasBit(args.files[i].flags, CompressedBit) =>
                  Written(args.files[i].path, RecordPayload(args.files[i]))

\* C9 amended: the same for every file entry whose flags bit 0 is clear and
\* whose payload has at least one byte; for a file of length 0 nothing is
\* written at its path.
C9_RoundTrip ==
    (Returned /\ PackerMade) =>
        /\ pc = "done"
        /\ \A i \in DOMAIN args.files :
              ~HasBit(args.files[i].flags, CompressedBit) =>
                  IF RecordSize(args.files[i]) > 0
                  THEN Written(args.files[i].path, RecordPayload(args.files[i]))
                  ELSE ~FileAt(fs, args.files[i].path)

\* A nested bundle with a file of three bytes in the sub-directory was
\* extracted.
C9_Witness ==
    /\ pc = "done"
    /\ PackerMade
    /\ \E i \in DOMAIN args.files :
          /\ Len(args.files[i].path) = 3
          /\ RecordSize(args.files[i]) = 3
          /\ Written(args.files[i].path, <<104, 105, 33>>)

\* C12: an attempt in which some file of the tree was not written ends with
\* an error, neither with a panic nor with Ok.
C12_SkippedEntryIsError ==
    (Returned /\ \E i \in DOMAIN args.files : ~FileAt(fs, args.files[i].path)) =>
        pc = "failed"

(***************************************************************************)
(* The three walks of one tree: parse_tree, collect_data_offsets,          *)
(* extract_tree                                                            *)
(***************************************************************************)

\* The files every walk gets through: a payload that is not empty, and for
\* a compressed file a size hint and a stream that inflates.
WalkFiles ==
    {f \in StoredFiles :
        /\ f.payload # <<>>
        /\ HasBit(f.flags, CompressedBit) =>
              Len(f.payload) > SizeHint /\ f.payload[SizeHint + 1] = ZlibMagic}

InitWalk ==
    /\ pc = "parse_tree"
    /\ \E bundle \in {s \in StoredBundles : \A i \in DOMAIN s.files : s.files[i] \in WalkFiles} :
          /\ bytes = StoredBytes(bundle)
          /\ args = [names |-> BundleNames,
                     tree_offset |-> TreePad,
                     blob_base |-> TreePad + Len(StoredTree(bundle.shape, bundle.files)),
                     files |-> [i \in 1..Len(bundle.files) |->
                                  [path |-> StoredPath(bundle.shape, Len(bundle.files), i),
                                   flags |-> bundle.files[i].flags,
                                   data_offset |-> StoredOffsets(bundle.files, 0)[i]]]]
    /\ ret = [read |-> <<>>, offsets |-> {}]
    /\ fs = EmptyFs

ParseTree(next) ==
    /\ pc = "parse_tree"
    /\ LET r == parse_tree(DOMAIN args.names, {}, <<>>,
                           SliceFrom(bytes, args.tree_offset), 0, 1)
       IN IF r.panic THEN pc' = PANIC /\ ret' = ret
          ELSE pc' = next /\ ret' = [ret EXCEPT !.read = r.read]
    /\ UNCHANGED <<bytes, args, fs>>

CollectDataOffsets(next) ==
    /\ pc = "collect_data_offsets"
    /\ LET r == collect_data_offsets(SliceFrom(bytes, args.tree_offset), 0, 1)
       IN IF r.panic THEN pc' = PANIC /\ ret' = ret
          ELSE pc' = next /\ ret' = [ret EXCEPT !.offsets = r.offsets]
    /\ UNCHANGED <<bytes, args, fs>>

SpecWalk ==
    InitWalk /\ [][\/ ParseTree("collect_data_offsets")
                   \/ CollectDataOffsets("extract_tree")
                   \/ ExtractTree("done")]_vars

\* The bytes of the tree as the buffer holds them: the big-endian u32 at
\* byte at of the record of node id, and bit 1 of its flags.
RawField(id, at) ==
    u32_from_be_bytes(Slice(bytes, args.tree_offset + EntrySize * id + at, 4))
RawIsDir(id) ==
    HasBit(u16_from_be_bytes(Slice(bytes, args.tree_offset + EntrySize * id + 4, 2)),
           DirectoryBit)
RawInTree(id) == args.tree_offset + EntrySize * (id + 1) <= Len(bytes)

\* The node ids reached from ids when the directory record holds its first
\* child's id at byte first_at and its child count at byte count_at.
RECURSIVE RawReached(_, _, _, _)
RawReached(ids, first_at, count_at, depth) ==
    IF depth = 0 THEN ids
    ELSE RawReached(
           ids \cup UNION {{c \in RawField(i, first_at) ..
                                   (RawField(i, first_at) + RawField(i, count_at) - 1) :
                              RawInTree(c)} :
                           i \in {d \in ids : RawIsDir(d)}},
           first_at, count_at, depth - 1)

\* What the three walks visit when the child ranges are read that way: the
\* ids parse_tree read, the data offsets collect_data_offsets returned, and
\* the names of the directories extract_tree created and of the files it
\* wrote.
WalksFollow(first_at, count_at) ==
    LET reached == RawReached({0}, first_at, count_at, SubDirIndex)
        named(id) == args.names[RawField(id, 0)]
    IN /\ {ret.read[i].id : i \in DOMAIN ret.read} = reached
       /\ ret.offsets = {RawField(id, 10) : id \in {f \in reached : ~RawIsDir(f)}}
       /\ {d[Len(d)] : d \in fs.dirs} = {named(id) : id \in {f \in reached : RawIsDir(f)}}
       /\ {fs.writes[i].path[Len(fs.writes[i].path)] : i \in DOMAIN fs.writes}
             = {named(id) : id \in {f \in reached : ~RawIsDir(f)}}

\* C15 as stated: bytes 6..10 of a directory entry are the first child's
\* node id and bytes 10..14 the child count, and the three walks recurse
\* into [bytes 6..10, bytes 6..10 + bytes 10..14).
C15_AsStated == Returned => pc = "done" /\ WalksFollow(6, 10)

\* C15: bytes 6..10 of a directory entry are the child count and bytes
\* 10..14 the first child's node id, and parse_tree, collect_data_offsets
\* and extract_tree all recurse into
\* [bytes 10..14, bytes 10..14 + bytes 6..10).
C15_ChildRange == Returned => pc = "done" /\ WalksFollow(10, 6)

\* The three walks went through a nested bundle of three files, whose
\* sub-directory has the count 2 and the first child 3.
C15_Witness ==
    /\ pc = "done"
    /\ Len(args.files) = 3
    /\ \E id \in 1..SubDirIndex :
          RawIsDir(id) /\ RawField(id, 6) = 2 /\ RawField(id, 10) = 3
    /\ Len(ret.read) = SubDirIndex + 1
    /\ Len(fs.writes) = 3

(***************************************************************************)
(* executable.rs: ExecutableMapping                                        *)
(***************************************************************************)

\* rangemap's RangeMap<usize, usize> as the set of its [start, end, value]
\* entries.  RangeMap::insert panics on an empty range, replaces what the
\* new range overlaps, and coalesces it with the entries of the same value
\* it overlaps or touches.
rangemap_insert(m, start, end, value) ==
    LET same == {r \in m : r.value = value /\ r.start <= end /\ start <= r.end}
        rest == m \ same
        left == {[start |-> r.start, end |-> IF r.end <= start THEN r.end ELSE start, value |-> r.value] : r \in rest}
        right == {[start |-> IF r.start >= end THEN r.start ELSE end, end |-> r.end, value |-> r.value] : r \in rest}
        merged == [start |-> SetMin({start} \cup {r.start : r \in same}),
                   end |-> SetMax({end} \cup {r.end : r \in same}),
                   value |-> value]
    IN {r \in left \cup right : r.start < r.end} \cup {merged}

\* RangeMap::get_key_value: the entries that contain x (at most one).
rangemap_get(m, x) == {r \in m : r.start <= x /\ x < r.end}

EmptyMapping == [image_base |-> 0, rva_mapping |-> {}, file_mapping |-> {}]

\* Which load records parse inserts: every PE section; an ELF segment that
\* is PT_LOAD with non-zero p_filesz and p_memsz.
segment_loaded(format, seg) ==
    \/ format = "PE"
    \/ ~(~seg.load \/ seg.filesz = 0 \/ seg.memsz = 0)

\* A mutant of track_segment: the address range is stored with its own
\* start, not the start of the file range.
track_segment_rva_base(mapping, seg) ==
    [mapping EXCEPT
        !.file_mapping = rangemap_insert(@, seg.offset, seg.offset + seg.filesz, seg.vaddr),
        !.rva_mapping = rangemap_insert(@, seg.vaddr, seg.vaddr + seg.memsz, seg.vaddr)]

\* "Track the mappings."
track_segment(mapping, seg) ==
    [mapping EXCEPT
        !.file_mapping = rangemap_insert(@, seg.offset, seg.offset + seg.filesz, seg.vaddr),
        !.rva_mapping = rangemap_insert(@, seg.vaddr, seg.vaddr + seg.memsz, seg.offset)]

\* The loop of parse over the program headers or sections: [panic, mapping].
RECURSIVE parse_segments(_, _, _)
parse_segments(format, segs, mapping) ==
    IF segs = <<>> THEN [panic |-> FALSE, mapping |-> mapping]
    ELSE
      LET seg == Head(segs)
      IN
      IF ~segment_loaded(format, seg) THEN parse_segments(format, Tail(segs), mapping)
      ELSE IF seg.filesz = 0 \/ seg.memsz = 0
      THEN [panic |-> TRUE, mapping |-> mapping]  \* insert of an empty range
      ELSE parse_segments(format, Tail(segs), track_segment(mapping, seg))

\* ExecutableMapping::parse on what goblin's Object::parse returned: an
\* object of format "ELF", "PE" or anything else, its load records and its
\* image base.
mapping_parse(object) ==
    IF object.format = "ELF"
    THEN parse_segments("ELF", object.segments, EmptyMapping)
    ELSE IF object.format = "PE"
    THEN parse_segments("PE", object.segments,
                        [EmptyMapping EXCEPT !.image_base = object.image_base])
    ELSE [panic |-> FALSE, mapping |-> EmptyMapping]

\* Option<usize>: the empty set is None, {v} is Some(v).
\* rva - image_base underflows below the image base: a panic with overflow
\* checks, otherwise a wrapped address that no range contains.
rva_to_file_offset(mapping, rva, overflow_checks) ==
    IF rva < mapping.image_base
    THEN [panic |-> overflow_checks, value |-> {}]
    ELSE LET a == rva - mapping.image_base
         IN [panic |-> FALSE,
             value |-> {a + r.value - r.start : r \in rangemap_get(mapping.rva_mapping, a)}]

file_offset_to_rva(mapping, file_offset) ==
    {file_offset + r.value + mapping.image_base - r.start :
        r \in rangemap_get(mapping.file_mapping, file_offset)}

ParseMapping(next) ==
    /\ pc = "mapping_parse"
    /\ LET r == mapping_parse(args.object)
       IN IF r.panic THEN pc' = PANIC /\ ret' = ret
          ELSE /\ ret' = [ret EXCEPT !.mapping = r.mapping]
               /\ pc' = next
    /\ UNCHANGED <<bytes, args, fs>>

(***************************************************************************)
(* The two translations on their own                                       *)
(***************************************************************************)

Seg(load, offset, filesz, vaddr, memsz) ==
    [load |-> load, offset |-> offset, filesz |-> filesz, vaddr |-> vaddr, memsz |-> memsz]

\* Load records: a plain one; one that abuts it in the file and in memory;
\* one larger in memory than in the file; one that overlaps the first in
\* the file; one that overlaps it in memory; one larger in the file than in
\* memory; one with no bytes in the file; one that abuts the first in the
\* file with the same virtual address; one that is not PT_LOAD.
SegmentChoices ==
    { Seg(TRUE, 0, 4, 16, 4), Seg(TRUE, 4, 4, 20, 4), Seg(TRUE, 4, 4, 32, 6),
      Seg(TRUE, 2, 4, 40, 4), Seg(TRUE, 8, 4, 18, 4), Seg(TRUE, 8, 6, 48, 2),
      Seg(TRUE, 0, 0, 60, 4), Seg(TRUE, 4, 4, 16, 4), Seg(FALSE, 0, 4, 16, 4) }

MaxSegments == 2
MaxFileOffset == 14

Objects ==
    {[format |-> f, segments |-> s, image_base |-> IF f = "PE" THEN 64 ELSE 0] :
        f \in {"ELF", "PE", "Unknown"}, s \in SeqsUpTo(SegmentChoices, MaxSegments)}

InitMapping ==
    /\ pc = "mapping_parse"
    /\ bytes = <<>>
    /\ args \in {[object |-> o, x |-> x] : o \in Objects, x \in 0..MaxFileOffset}
    /\ ret = [mapping |-> EmptyMapping, rva |-> {}, back |-> {}]
    /\ fs = EmptyFs

FileOffsetToRva ==
    /\ pc = "file_offset_to_rva"
    /\ ret' = [ret EXCEPT !.rva = file_offset_to_rva(ret.mapping, args.x)]
    /\ pc' = IF ret'.rva = {} THEN "done" ELSE "rva_to_file_offset"
    /\ UNCHANGED <<bytes, args, fs>>

RvaToFileOffset ==
    /\ pc = "rva_to_file_offset"
    /\ LET r == rva_to_file_offset(ret.mapping, CHOOSE v \in ret.rva : TRUE, TRUE)
       IN IF r.panic THEN pc' = PANIC /\ ret' = ret
          ELSE /\ ret' = [ret EXCEPT !.back = r.value]
               /\ pc' = "done"
    /\ UNCHANGED <<bytes, args, fs>>

NextMapping == ParseMapping("file_offset_to_rva") \/ FileOffsetToRva \/ RvaToFileOffset

SpecMapping == InitMapping /\ [][NextMapping]_vars

\* The load records parse reads, and the intervals they name.
Loaded ==
    {i \in DOMAIN args.object.segments :
        /\ args.object.format \in {"ELF", "PE"}
        /\ (args.object.format = "ELF" => args.object.segments[i].load)
        /\ args.object.segments[i].filesz > 0
        /\ args.object.segments[i].memsz > 0}

InFile(i, x) ==
    LET seg == args.object.segments[i]
    IN seg.offset <= x /\ x < seg.offset + seg.filesz

\* x lies in the part of record i that is present in memory too.
InFileAndMemory(i, x) ==
    InFile(i, x) /\ x - args.object.segments[i].offset < args.object.segments[i].memsz

Disjoint(a1, a2, b1, b2) == a2 <= b1 \/ b2 <= a1

\* No two load records share a file offset or a virtual address (they may
\* abut).
SegmentsDisjoint ==
    \A i, j \in Loaded :
        i # j =>
            LET s == args.object.segments[i]
                u == args.object.segments[j]
            IN /\ Disjoint(s.offset, s.offset + s.filesz, u.offset, u.offset + u.filesz)
               /\ Disjoint(s.vaddr, s.vaddr + s.memsz, u.vaddr, u.vaddr + u.memsz)

\* C10 as stated: for every file offset x inside some file interval of the
\* mapping, file_offset_to_rva(x) is Some(r) and rva_to_file_offset(r) is
\* Some(x), whatever the sizes and the overlaps of the load records.
C10_AsStated ==
    (pc = "done" /\ \E i \in Loaded : InFile(i, args.x)) =>
        ret.rva # {} /\ ret.back = {args.x}

\* C10 amended: when no two load records overlap in the file or in memory,
\* for every file offset x inside a file interval and less than the
\* record's virtual size past its start, file_offset_to_rva(x) is Some(r)
\* and rva_to_file_offset(r) is Some(x).
C10_RoundTrip ==
    (pc = "done" /\ SegmentsDisjoint /\ \E i \in Loaded : InFileAndMemory(i, args.x)) =>
        ret.rva # {} /\ ret.back = {args.x}

\* A PE offset in the second of two abutting sections went there and back.
C10_Witness ==
    /\ pc = "done"
    /\ args.object.format = "PE"
    /\ SegmentsDisjoint
    /\ Cardinality(Loaded) = 2
    /\ InFileAndMemory(2, args.x)
    /\ ret.rva = {args.x - args.object.segments[2].offset
                  + args.object.segments[2].vaddr + args.object.image_base}
    /\ ret.back = {args.x}

(***************************************************************************)
(* blob.rs: find_blobs_push, find_blobs_lea                                *)
(***************************************************************************)

PushOpcode == 104
PushSize == 5
LeaOpcode == 141
LeaSize == 6
RegRsi == 53
RegRdx == 21
RegRcx == 13
RegR8 == 5
RegR9 == 13

\* bytes.windows(n).enumerate(): the 0-based starts.
WindowStarts(b, n) == 0..(Len(b) - n)

\* The anchor closest to the instruction at offset: binary_search over the
\* sorted anchors, Err(index) being the number of anchors below offset.
closest_anchor(known, offset) ==
    LET index == Cardinality({k \in known : k < offset})
        sorted == SortedSeq(known)
    IN IF offset \in known THEN offset
       ELSE IF index >= Len(sorted) THEN sorted[index]
       ELSE IF index = 0 THEN sorted[1]
       ELSE LET lhs == sorted[index]
                rhs == sorted[index + 1]
            IN IF offset - lhs < rhs - offset THEN lhs ELSE rhs

\* scores.insert(distance, value) for the instructions at the offsets of
\* todo in ascending order: a later instruction replaces an earlier one of
\* the same distance.
RECURSIVE score_all(_, _, _, _)
score_all(todo, target, known, scores) ==
    IF todo = {} THEN scores
    ELSE LET offset == SetMin(todo)
             closest == closest_anchor(known, offset)
             d == IF offset >= closest THEN offset - closest ELSE closest - offset
         IN score_all(todo \ {offset}, target, known, (d :> target[offset]) @@ scores)

\* The file offset a push at offset refers to: [panic, value].
push_target(b, mapping, offset, overflow_checks) ==
    rva_to_file_offset(mapping,
                       u32_from_ne_bytes(Slice(b, offset + 1, PushSize - 1)),
                       overflow_checks)

\* find_blobs_push: [panic, scores], scores the BTreeMap distance -> offset.
find_blobs_push(b, mapping, tree_offset, name_offset, overflow_checks) ==
    LET pushes == {o \in WindowStarts(b, PushSize) : b[o + 1] = PushOpcode}
        target == [o \in pushes |-> push_target(b, mapping, o, overflow_checks)]
        mapped == {o \in pushes : target[o].value # {}}
        known == {o \in mapped : \E v \in target[o].value : v = tree_offset \/ v = name_offset}
        value == [o \in mapped |-> CHOOSE v \in target[o].value : TRUE]
    IN [panic |-> \E o \in pushes : target[o].panic,
        scores |-> IF known = {} THEN <<>>
                   ELSE score_all(mapped \ known, value, known, <<>>)]

\* The file offset a lea at offset refers to: position + disp32 + 6.
lea_target(b, mapping, offset, overflow_checks) ==
    rva_to_file_offset(mapping,
                       offset + u32_from_ne_bytes(Slice(b, offset + 2, LeaSize - 2)) + LeaSize,
                       overflow_checks)

lea_registers(is_win) ==
    IF is_win THEN [tree |-> RegRdx, name |-> RegR8, blob |-> RegR9]
    ELSE [tree |-> RegRsi, name |-> RegRdx, blob |-> RegRcx]

\* find_blobs_lea: [panic, scores].
find_blobs_lea(b, mapping, tree_offset, name_offset, is_win, overflow_checks) ==
    LET reg == lea_registers(is_win)
        leas == {o \in WindowStarts(b, LeaSize) : b[o + 1] = LeaOpcode}
        target == [o \in leas |-> lea_target(b, mapping, o, overflow_checks)]
        mapped == {o \in leas : target[o].value # {}}
        known == {o \in mapped :
                    \/ b[o + 2] = reg.tree /\ target[o].value = {tree_offset}
                    \/ b[o + 2] = reg.name /\ target[o].value = {name_offset}}
        blobs == {o \in mapped : b[o + 2] = reg.blob}
        value == [o \in mapped |-> CHOOSE v \in target[o].value : TRUE]
    IN [panic |-> \E o \in leas : target[o].panic,
        scores |-> IF known = {} THEN <<>>
                   ELSE score_all(blobs, value, known, <<>>)]

(***************************************************************************)
(* find_blobs_lea on its own: an ELF image with three lea instructions     *)
(***************************************************************************)

\* An image of two PT_LOAD segments.  The code segment is the first 40
\* bytes of the file, loaded at code_vaddr: five slots of 8 bytes, a slot
\* being 48 8d modrm disp32 00 or zeros.  The data segment is the next 32
\* bytes, loaded at data_vaddr: the tree, the name table, the blob region
\* and one more target, 8 bytes apart.  The instructions of slots 0..2 are
\* lea rsi, lea rdx and lea rcx in the order regs, referring to the tree,
\* the name table and the blob region; slot 4 may hold another lea rcx.
\* Each disp32 is the target's virtual address minus the virtual address of
\* the byte after the instruction, as the processor computes it.
LeaImage(code_vaddr, data_vaddr, regs, far) ==
    LET code_size == 40
        target == [r \in {RegRsi, RegRdx, RegRcx} |->
                     IF r = RegRsi THEN code_size
                     ELSE IF r = RegRdx THEN code_size + 8
                     ELSE code_size + 16]
        disp(slot, file_offset) ==
            (file_offset - code_size + data_vaddr) - (8 * slot + 1 + code_vaddr + LeaSize)
        lea(slot, reg, file_offset) ==
            <<72, LeaOpcode, reg, disp(slot, file_offset) % 256,
              disp(slot, file_offset) \div 256, 0, 0, 0>>
    IN [bytes |-> lea(0, regs[1], target[regs[1]]) \o lea(1, regs[2], target[regs[2]])
                  \o lea(2, regs[3], target[regs[3]]) \o Zeros(8)
                  \o (IF far THEN lea(4, RegRcx, code_size + 24) ELSE Zeros(8))
                  \o Zeros(32),
        object |-> [format |-> "ELF", image_base |-> 0,
                    segments |-> <<Seg(TRUE, 0, code_size, code_vaddr, code_size),
                                   Seg(TRUE, code_size, 32, data_vaddr, 32)>>],
        tree_offset |-> target[RegRsi],
        name_offset |-> target[RegRdx],
        blob_offset |-> target[RegRcx]]

MaxCodeShift == 2

InitLea ==
    /\ pc = "mapping_parse"
    /\ \E shift \in 0..MaxCodeShift, gap \in {0, 16, 64}, far \in BOOLEAN,
          regs \in {r \in [1..3 -> {RegRsi, RegRdx, RegRcx}] :
                      \A i, j \in 1..3 : r[i] = r[j] => i = j} :
          LET image == LeaImage(16 * shift, 16 * shift + 40 + gap, regs, far)
          IN /\ bytes = image.bytes
             /\ args = [object |-> image.object,
                        tree_offset |-> image.tree_offset,
                        name_offset |-> image.name_offset,
                        blob_offset |-> image.blob_offset]
    /\ ret = [mapping |-> EmptyMapping, scores |-> <<>>]
    /\ fs = EmptyFs

\* blob::find_blobs_lea(&bytes, &mapping, tree_range.start, name_range.start, false)
FindBlobsLea ==
    /\ pc = "find_blobs_lea"
    /\ LET r == find_blobs_lea(bytes, ret.mapping, args.tree_offset, args.name_offset,
                               FALSE, TRUE)
       IN IF r.panic THEN pc' = PANIC /\ ret' = ret
          ELSE /\ ret' = [ret EXCEPT !.scores = r.scores]
               /\ pc' = "done"
    /\ UNCHANGED <<bytes, args, fs>>

SpecLea == InitLea /\ [][ParseMapping("find_blobs_lea") \/ FindBlobsLea]_vars

\* C11: in an ELF image whose lea rsi, lea rdx and lea rcx refer to the
\* tree, the name table and the blob region, find_blobs_lea for System V
\* returns the file offset of the blob region as the entry of the smallest
\* distance, wherever the code segment is loaded.
C11_LeaFindsBlob ==
    (pc \in {"done", PANIC}) =>
        /\ pc = "done"
        /\ DOMAIN ret.scores # {}
        /\ ret.scores[SetMin(DOMAIN ret.scores)] = args.blob_offset

(***************************************************************************)
(* main.rs: distance, main                                                 *)
(***************************************************************************)

\* "Calculates the distance between two ranges."
distance(lhs, rhs) ==
    IF lhs.end <= rhs.start THEN rhs.start - lhs.end
    ELSE IF rhs.end <= lhs.start THEN lhs.start - rhs.end
    ELSE 0

\* tree::find_trees, which main calls and tree.rs does not define: the
\* accepted offsets of find_tree_offsets, each with the byte range from its
\* start to start + 22 * (the last node id visited).
find_trees(names, b) ==
    LET r == find_tree_offsets(names, b)
    IN [panic |-> r.panic,
        trees |-> [o \in r.tree_offsets |->
                     [start |-> o,
                      end |-> o + EntrySize * SetMax({0} \cup r.attempts[o].node_ids)]]]

\* tree::find_blobs, which main calls and tree.rs does not define: the
\* starts of find_blob_offsets, each with a range of one byte as main gives
\* the starts it finds itself.
find_blobs(tree_offset, b, overflow_checks) ==
    LET r == find_blob_offsets(tree_offset, b, overflow_checks)
    IN [panic |-> r.panic,
        blobs |-> [o \in r.blob_offsets |-> [start |-> o, end |-> o + 1]]]

\* .map(|(_, range)| (distance(name_range, &range), range)).collect() into
\* a BTreeMap: the ranges are taken in ascending order of their key, and a
\* later range replaces an earlier one of the same distance.
RECURSIVE score_ranges(_, _, _, _)
score_ranges(name_range, ranges, todo, scored) ==
    IF todo = {} THEN scored
    ELSE LET o == SetMin(todo)
         IN score_ranges(name_range, ranges, todo \ {o},
                         (distance(name_range, ranges[o]) :> ranges[o]) @@ scored)

\* A BTreeMap as the sequence of its values in ascending order of key.
ValuesByKey(m) == LET keys == SortedSeq(DOMAIN m) IN [i \in DOMAIN keys |-> m[keys[i]]]

ranked(name_range, ranges) ==
    ValuesByKey(score_ranges(name_range, ranges, DOMAIN ranges, <<>>))

\* The first entry of a BTreeMap of scores as the one-byte blob range main
\* inserts, if there is one.
first_score(scores) ==
    IF DOMAIN scores = {} THEN <<>>
    ELSE LET v == scores[SetMin(DOMAIN scores)]
         IN (v :> [start |-> v, end |-> v + 1])

\* The blob candidates of one tree: S1, then S2, then S3 for System V, then
\* S3 for Windows, each only if nothing was found before: [panic, blobs].
locate_blobs(b, mapping, tree_start, name_start, overflow_checks) ==
    LET s1 == find_blobs(tree_start, b, overflow_checks)
        s2 == find_blobs_push(b, mapping, tree_start, name_start, overflow_checks)
        s3 == find_blobs_lea(b, mapping, tree_start, name_start, FALSE, overflow_checks)
        s4 == find_blobs_lea(b, mapping, tree_start, name_start, TRUE, overflow_checks)
    IN IF s1.panic \/ DOMAIN s1.blobs # {} THEN [panic |-> s1.panic, blobs |-> s1.blobs]
       ELSE IF s2.panic \/ DOMAIN s2.scores # {}
       THEN [panic |-> s2.panic, blobs |-> first_score(s2.scores)]
       ELSE IF s3.panic \/ DOMAIN s3.scores # {}
       THEN [panic |-> s3.panic, blobs |-> first_score(s3.scores)]
       ELSE [panic |-> s4.panic, blobs |-> first_score(s4.scores)]

\* for (_, (name_range, names)) in names.iter(): the next name table, its
\* trees found and ranked.
MainNextTable ==
    /\ pc = "next_table"
    /\ IF ret.tables = <<>>
       THEN pc' = "done" /\ ret' = ret
       ELSE LET table == Head(ret.tables)
                found == find_trees(table.names, bytes)
            IN IF found.panic THEN pc' = PANIC /\ ret' = ret
               ELSE /\ ret' = [ret EXCEPT !.tables = Tail(@),
                                          !.table = table,
                                          !.trees = ranked(table.range, found.trees)]
                    /\ pc' = "next_tree"
    /\ UNCHANGED <<bytes, args, fs>>

\* 'outer: for (score, tree_range) in trees: the next tree, its blob
\* candidates found and ranked.
MainNextTree ==
    /\ pc = "next_tree"
    /\ IF ret.trees = <<>>
       THEN pc' = "next_table" /\ ret' = ret
       ELSE LET tree == Head(ret.trees)
                found == locate_blobs(bytes, ret.mapping, tree.start,
                                      ret.table.range.start, args.overflow_checks)
            IN IF found.panic THEN pc' = PANIC /\ ret' = ret
               ELSE /\ ret' = [ret EXCEPT !.trees = Tail(@),
                                          !.tree = tree,
                                          !.blobs = ranked(ret.table.range, found.blobs)]
                    /\ pc' = "next_blob"
    /\ UNCHANGED <<bytes, args, fs>>

\* for (score, blob_range) in blobs: one extraction attempt; Ok breaks out
\* of the loop over the trees.
MainNextBlob ==
    /\ pc = "next_blob"
    /\ IF ret.blobs = <<>>
       THEN pc' = "next_tree" /\ ret' = ret /\ fs' = fs
       ELSE LET blob == Head(ret.blobs)
                r == extract_tree(<<>>, ret.table.names, SliceFrom(bytes, blob.start),
                                  SliceFrom(bytes, ret.tree.start), 0, 1, fs, 0)
            IN /\ fs' = r.fs
               /\ ret' = [ret EXCEPT !.blobs = Tail(@)]
               /\ pc' = IF r.panic THEN PANIC
                        ELSE IF r.ok THEN "next_table"
                        ELSE "next_blob"
    /\ UNCHANGED <<bytes, args>>

\* let names = scan_names(&bytes): the tables in ascending order of start.
MainScanned ==
    /\ pc = "scanned"
    /\ ret' = [ret EXCEPT !.tables = ValuesByKey(ret.sections)]
    /\ pc' = "next_table"
    /\ UNCHANGED <<bytes, args, fs>>

(***************************************************************************)
(* Whole inputs: a tree, a name table and a blob region in one buffer      *)
(***************************************************************************)

\* The names of an input: len characters each, name i for entry i.
MainName(len, i) == [k \in 1..len |-> 97 + len * i + k - 1]
RECURSIVE MainNameTable(_, _, _)
MainNameTable(len, i, last) ==
    IF i > last THEN <<>>
    ELSE NameEntry(len, hash_str(MainName(len, i)), MainName(len, i))
         \o MainNameTable(len, i + 1, last)

RECURSIVE MainFileEntries(_, _, _)
MainFileEntries(len, payloads, i) ==
    IF i > Len(payloads) THEN <<>>
    ELSE FileEntry((NameHeader + PairSize * len) * i, 0,
                   StoredOffsets([j \in DOMAIN payloads |-> [payload |-> payloads[j]]], 0)[i])
         \o MainFileEntries(len, payloads, i + 1)

MainTree(len, payloads) ==
    DirEntry(0, Len(payloads), 1) \o MainFileEntries(len, payloads, 1) \o Zeros(EntrySize)

MainRegion(payloads) ==
    StoredRegion([j \in DOMAIN payloads |-> [payload |-> payloads[j]]])

Hello == <<104, 101, 108, 108, 111>>
MaxMainFiles == 2

\* pad is 0 for a table at an even offset, 1 for one at an odd offset.
MainInputs ==
    {[len |-> l, payloads |-> ps, pad |-> pad] :
        l \in {1, 2},
        ps \in SeqsUpTo({Hello, <<104, 105>>}, MaxMainFiles) \ {<<>>},
        pad \in {0, 1}}

MainBytes(input) ==
    Zeros(TreePad) \o MainTree(input.len, input.payloads)
    \o Zeros(PairSize + input.pad)
    \o MainNameTable(input.len, 0, Len(input.payloads)) \o Zeros(SizeField)
    \o MainRegion(input.payloads)

(***************************************************************************)
(* The whole program                                                       *)
(***************************************************************************)

Init ==
    /\ pc = "mapping_parse"
    /\ \E input \in MainInputs, oc \in BOOLEAN :
          /\ bytes = MainBytes(input)
          /\ args = [object |-> [format |-> "Unknown", segments |-> <<>>, image_base |-> 0],
                     overflow_checks |-> oc,
                     input |-> input]
    /\ ret = [mapping |-> EmptyMapping, offsets |-> {}, sections |-> <<>>,
              tables |-> <<>>, table |-> NONE, trees |-> <<>>, tree |-> NONE,
              blobs |-> <<>>]
    /\ fs = EmptyFs

Next ==
    \/ ParseMapping("scan_ascii_names_0")
    \/ ScanAsciiNames0
    \/ ScanAsciiNames1
    \/ ScanNamesLoop("scanned")
    \/ MainScanned
    \/ MainNextTable
    \/ MainNextTree
    \/ MainNextBlob

Spec == Init /\ [][Next]_vars

\* The input of one file: names "a" and "b" in a table at an even offset,
\* the root directory "a" with the child range (1, 1), the file "b" with
\* data_offset 0 and the record [00 00 00 05 | "hello"].
OneFileInput == [len |-> 1, payloads |-> <<Hello>>, pad |-> 0]

\* C1: on the input of one file the pipeline writes the directory a/ and in
\* it the file b with the contents "hello".
C1_OneFileExtracted ==
    (pc \in {"done", PANIC} /\ args.input = OneFileInput) =>
        /\ pc = "done"
        /\ <<MainName(1, 0)>> \in fs.dirs
        /\ Written(<<MainName(1, 0), MainName(1, 1)>>, Hello)

(***************************************************************************)
(* Two accepted trees around one name table                                *)
(***************************************************************************)

\* A second tree over the same names whose data offsets match no chain of
\* size fields: the validator accepts it, S1 finds no blob region for it.
DecoyTree(len) ==
    DirEntry(0, 2, 1)
    \o FileEntry(NameHeader + PairSize * len, 0, 0)
    \o FileEntry((NameHeader + PairSize * len) * 2, 0, TreeStride * TreeStride)
    \o Zeros(EntrySize)

\* Names of three characters; shift moves the second tree away from the
\* offset at which it is as far behind the name table as the first tree's
\* range ends before it.
TiedInputs ==
    {[len |-> 3, payloads |-> ps, shift |-> sh] :
        ps \in {p \in SeqsUpTo({Hello, <<104, 105>>}, MaxMainFiles) : Len(p) = MaxMainFiles},
        sh \in {0 - TreeStride, 0, TreeStride}}

TiedBytes(input) ==
    LET head   == Zeros(TreePad) \o MainTree(input.len, input.payloads) \o Zeros(PairSize * 2)
        gap    == Len(head) - (TreePad + EntrySize * Len(input.payloads))
        table  == MainNameTable(input.len, 0, Len(input.payloads))
        mid    == head \o table \o Zeros(SizeField) \o MainRegion(input.payloads)
        second == Len(head) + Len(table) + gap + input.shift
    IN mid \o Zeros(second - Len(mid)) \o DecoyTree(input.len)

InitTied ==
    /\ pc = "mapping_parse"
    /\ \E input \in TiedInputs, oc \in BOOLEAN :
          /\ bytes = TiedBytes(input)
          /\ args = [object |-> [format |-> "Unknown", segments |-> <<>>, image_base |-> 0],
                     overflow_checks |-> oc,
                     input |-> input]
    /\ ret = [mapping |-> EmptyMapping, offsets |-> {}, sections |-> <<>>,
              tables |-> <<>>, table |-> NONE, trees |-> <<>>, tree |-> NONE,
              blobs |-> <<>>]
    /\ fs = EmptyFs

SpecTied == InitTied /\ [][Next]_vars

\* C13: an accepted tree is attempted whatever the distance of the other
\* accepted tree to the name table, the same distance included: main ends
\* having written the files of the tree whose blob region S1 finds.
C13_TiedTreeTried ==
    (pc \in {"done", PANIC}) =>
        /\ pc = "done"
        /\ \A i \in DOMAIN args.input.payloads :
              Written(<<MainName(args.input.len, 0), MainName(args.input.len, i)>>,
                      args.input.payloads[i])

(***************************************************************************)
(* The hash on its own                                                     *)
(***************************************************************************)

MaxStrLen == 3

\* a b c q t and the largest scalar value, which reaches the mask in 3 steps
HashChars == {97, 98, 99, 113, 116, 1114111}

InitHash ==
    /\ pc = "hash_str"
    /\ bytes = <<>>
    /\ args \in {[s |-> x] : x \in SeqsUpTo(HashChars, MaxStrLen)}
    /\ ret = NONE
    /\ fs = EmptyFs

HashStr ==
    /\ pc = "hash_str"
    /\ ret' = [h |-> hash_str(args.s)]
    /\ pc' = "done"
    /\ UNCHANGED <<bytes, args, fs>>

SpecHash == InitHash /\ [][HashStr]_vars

\* C2 as stated: hash_str("abc") = 0x00029d3c, hash_str("") = 0 and
\* hash_str("qt") = 0x00000370.
C2_AsStated ==
    (pc = "done") =>
        /\ (args.s = <<97, 98, 99>> => ret.h = 171324)
        /\ (args.s = <<>> => ret.h = 0)
        /\ (args.s = <<113, 116>> => ret.h = 880)

\* C2 amended: hash_str("abc") = 0x00006783, hash_str("") = 0 and
\* hash_str("qt") = 0x00000784; every result is below 2^28.
C2_HashLiterals ==
    (pc = "done") =>
        /\ (args.s = <<97, 98, 99>> => ret.h = 26499)
        /\ (args.s = <<>> => ret.h = 0)
        /\ (args.s = <<113, 116>> => ret.h = 1924)
        /\ ret.h < Pow2(HashMaskBits)

C2_Witness == pc = "done" /\ args.s = <<97, 98, 99>> /\ ret.h = 26499

====
